---- MODULE Spec2Model ----
(***************************************************************************)
(* Order placement, cancellation and status update of the bookstore API    *)
(* (src/services/orderService.ts, bookService.ts) over a transactional     *)
(* store, with the routes in front of them (POST /api/orders, PUT           *)
(* /api/orders/{id}) and the authentication of a request (lib/auth.ts,      *)
(* lib/authorization.ts).  Every storage call of a handler is one step, so  *)
(* concurrent requests interleave at every await.                           *)
(*                                                                          *)
(* Store model: a write inside db.$transaction is pending until the         *)
(* transaction commits and is dropped when the callback throws; a pending   *)
(* write holds the row's lock, so another writer of that row waits (or      *)
(* gives up with a lock-wait error); a read never waits and sees committed  *)
(* rows plus the reader's own pending writes; `decrement`/`increment` are   *)
(* applied by the store to the row's current value.  This is the store of   *)
(* the MySQL configuration the README describes: rows are locked by writes  *)
(* only, and a read inside a transaction takes no lock.                     *)
(***************************************************************************)
EXTENDS Integers, Sequences, FiniteSets, TLC

\* ---- bounds of the model ----
MaxStock == 2     \* initial stockQuantity of a book is in 1..MaxStock
MaxQty   == 2     \* requested quantity of a valid entry is in 1..MaxQty
MaxItems == 2     \* entries per createOrder request
MaxLoad  == 2     \* work admitted per run: a call counts 1, a createOrder its entries

Procs   == {"r1", "r2"}          \* concurrently handled requests
Users   == {"alice", "bob"}
\* the customer whose orders request slot p places
Customer(p) == IF p = "r1" THEN "alice" ELSE "bob"
Books   == {"A", "B"}            \* rows of the book table
NoBookId == ""                   \* an entry without bookId
GhostId  == "ghost"              \* an id that names no book
BasePrice == [b \in Books |-> IF b = "A" THEN 2 ELSE 3]

PENDING   == "PENDING"
SHIPPED   == "SHIPPED"
DELIVERED == "DELIVERED"
CANCELLED == "CANCELLED"
OrderStatus == {PENDING, SHIPPED, DELIVERED, CANCELLED}
PaymentPENDING == "PENDING"

VARIABLES
  stock,        \* [Books -> Int]   committed Book.stockQuantity
  price,        \* [Books -> Nat]   committed Book.price
  orders,       \* sequence of committed Order rows (id = index), items inline
  pc,           \* [Procs -> step of the handler the request is suspended at]
  req,          \* [Procs -> arguments of the running / last call]
  loc,          \* [Procs -> locals of the handler]
  tx,           \* [Procs -> pending writes of the open transaction]
  result,       \* [Procs -> outcome of the last finished call]
  load,         \* work admitted so far (bounds the run)
  stockAtStart, \* history: committed stock when the call was made
  ordersAtStart,\* history: committed orders when the call was made
  usersAtStart, \* history: user rows when the call was made
  concurrent,   \* history: did another call overlap this one
  initStock,    \* history: stock of the initial state
  catalog,      \* ids of the rows of the book table (deleteBook removes one)
  users         \* sequence of the rows of the user table

vars == <<stock, price, orders, pc, req, loc, tx, result, load,
          stockAtStart, ordersAtStart, usersAtStart, concurrent, initStock,
          catalog, users>>
hist == <<stockAtStart, ordersAtStart, usersAtStart, concurrent, initStock>>

\* ---- helpers ----
ZeroDelta == [b \in Books |-> 0]
NoTx == [delta |-> ZeroDelta, locks |-> {}, order |-> <<>>, orderWrite |-> 0]
NoLoc == [idx |-> 0, orderItems |-> <<>>, totalPrice |-> 0,
          book |-> [price |-> 0, stockQuantity |-> 0]]
NoReq == [op |-> "none", userId |-> "", items |-> <<>>, orderId |-> 0, status |-> ""]
NoResult == [kind |-> "none", status |-> 0, book |-> "", available |-> 0, requested |-> 0]

RECURSIVE SumSubtotals(_)
SumSubtotals(its) ==
  IF its = <<>> THEN 0 ELSE its[1].subtotal + SumSubtotals(Tail(its))

RECURSIVE TotalQty(_, _)
\* total quantity the entries of a list ask of book b
TotalQty(its, b) ==
  IF its = <<>> THEN 0
  ELSE (IF its[1].bookId = b THEN its[1].quantity ELSE 0) + TotalQty(Tail(its), b)

\* ---- error messages and their HTTP mapping ----
\* The error kinds stand for the message texts thrown by the services:
\*   EmptyOrder             'Order must contain at least one item'
\*   InvalidItem            'Invalid order item'
\*   BookIdNotFound         'Book with ID <id> not found'
\*   BookNotFound           'Book not found'
\*   InsufficientStock      'Insufficient stock for book "<title>". Available: <a>, Requested: <q>'
\*   StockValidationFailed  'Stock validation failed during order processing. Please try again.'
\*   LockTimeout            the store's lock-wait / deadlock error
\*   RecordNotFound         the store's 'Record to update not found.' error
\*   OrderNotFound          'Order not found'
\*   NotOwner               'You can only cancel your own orders'
\*   NotPending             'Only pending orders can be cancelled'
MessageIncludesNotFound(kind) == kind \in {"BookIdNotFound", "BookNotFound", "RecordNotFound"}
MessageIncludesInsufficientStock(kind) == kind = "InsufficientStock"

\* mutant: the catch block does not look for 'not found'
PostOrderErrorStatusWithout404(kind) ==
  IF MessageIncludesInsufficientStock(kind) THEN 400 ELSE 500
\* catch block of POST /api/orders
PostOrderErrorStatus(kind) ==
  IF MessageIncludesNotFound(kind) THEN 404
  ELSE IF MessageIncludesInsufficientStock(kind) THEN 400
  ELSE 500

Thrown(kind, b, a, q) ==
  [kind |-> kind, status |-> PostOrderErrorStatus(kind),
   book |-> b, available |-> a, requested |-> q]
Created == [kind |-> "ok", status |-> 201, book |-> "", available |-> 0, requested |-> 0]
Returned == [kind |-> "ok", status |-> 200, book |-> "", available |-> 0, requested |-> 0]

\* ---- the store ----
\* stock of book b as transaction p reads it: committed value plus own pending writes
TxStock(p, b) == stock[b] + tx[p].delta[b]
\* row of book b is locked by a transaction other than p
BookLockedByOther(p, b) == \E q \in Procs \ {p} : b \in tx[q].locks
\* row of order id is locked by a transaction other than p
OrderLockedByOther(p, id) == \E q \in Procs \ {p} : tx[q].orderWrite = id
\* mutants: the update changes the stock by one instead of by the quantity
DecrementedByOne(stockQuantity, quantity) == stockQuantity - 1
IncrementedByOne(stockQuantity, quantity) == stockQuantity + 1
\* `stockQuantity: { decrement: quantity }` and `{ increment: quantity }`
Decremented(stockQuantity, quantity) == stockQuantity - quantity
Incremented(stockQuantity, quantity) == stockQuantity + quantity
\* committed stock after transaction t commits
CommitStock(t) == [b \in Books |-> stock[b] + t.delta[b]]
\* mutant: the writes made before the throw stay in the store
RollbackKeepsWrites(t) == CommitStock(t)
\* committed stock after transaction t is rolled back
RollbackStock(t) == stock

\* ---- inputs ----
ValidEntries == [bookId : Books, quantity : 1..MaxQty]
InvalidEntries == { [bookId |-> NoBookId, quantity |-> 1],
                    [bookId |-> "A", quantity |-> 0],
                    [bookId |-> GhostId, quantity |-> 1] }
Entries == ValidEntries \cup InvalidEntries
\* the item lists of n entries
ItemLists(n) == [1..n -> Entries]

Init ==
  /\ stock \in [Books -> 1..MaxStock]
  /\ price = BasePrice
  /\ orders = <<>>
  /\ pc = [p \in Procs |-> "idle"]
  /\ req = [p \in Procs |-> NoReq]
  /\ loc = [p \in Procs |-> NoLoc]
  /\ tx = [p \in Procs |-> NoTx]
  /\ result = [p \in Procs |-> NoResult]
  /\ load = 0
  /\ stockAtStart = [p \in Procs |-> stock]
  /\ ordersAtStart = [p \in Procs |-> <<>>]
  /\ usersAtStart = [p \in Procs |-> <<>>]
  /\ concurrent = [p \in Procs |-> FALSE]
  /\ initStock = stock
  /\ catalog = Books
  /\ users = <<>>

\* work a call adds to the run
Cost(r) == IF Len(r.items) > 1 THEN Len(r.items) ELSE 1

\* a call by p begins: arguments and history variables.  The responses of the
\* calls that ended before are kept until here, where a new call is made.
Begin(p, r) ==
  /\ pc[p] = "idle"
  /\ load + Cost(r) <= MaxLoad
  /\ load' = load + Cost(r)
  /\ req' = [q \in Procs |-> IF q = p THEN r ELSE IF pc[q] = "idle" THEN NoReq ELSE req[q]]
  /\ stockAtStart' = [q \in Procs |->
        IF q = p \/ pc[q] = "idle" THEN stock ELSE stockAtStart[q]]
  /\ ordersAtStart' = [q \in Procs |->
        IF q = p \/ pc[q] = "idle" THEN orders ELSE ordersAtStart[q]]
  /\ usersAtStart' = [q \in Procs |->
        IF q = p \/ pc[q] = "idle" THEN users ELSE usersAtStart[q]]
  /\ concurrent' = [q \in Procs |->
        IF q = p THEN \E o \in Procs \ {p} : pc[o] # "idle"
        ELSE pc[q] # "idle"]
  /\ UNCHANGED <<price, tx, initStock, catalog, users>>

\* the responses after p's call began
Responses(p, r) ==
  [q \in Procs |-> IF q = p THEN r ELSE IF pc[q] = "idle" THEN NoResult ELSE result[q]]

\* the handler of p ends with outcome r; its transaction, if any, is closed
Finish(p, r) ==
  /\ pc' = [pc EXCEPT ![p] = "idle"]
  /\ result' = [result EXCEPT ![p] = r]
  /\ loc' = [loc EXCEPT ![p] = NoLoc]
  /\ tx' = [tx EXCEPT ![p] = NoTx]

\* ---- createOrder (orderService.ts) ----
\* `!item.bookId || !item.quantity || item.quantity <= 0`
InvalidItem(item) == item.bookId = NoBookId \/ item.quantity = 0 \/ item.quantity <= 0
\* checkStockAvailability's answer
IsAvailable(stockQuantity, quantity) == stockQuantity >= quantity
\* the check inside the transaction, `book.stockQuantity < item.quantity`
TxInsufficient(stockQuantity, quantity) == stockQuantity < quantity
\* mutant: the quantity is left out of the subtotal
SubtotalIsUnitPrice(unitPrice, quantity) == unitPrice
\* `book.price * item.quantity`
Subtotal(unitPrice, quantity) == unitPrice * quantity
\* the element pushed on orderItems
OrderItem(item, book) ==
  [bookId |-> item.bookId, quantity |-> item.quantity,
   unitPrice |-> book.price, subtotal |-> Subtotal(book.price, item.quantity)]
\* the row tx.order.create inserts
NewOrder(userId, items, total) ==
  [userId |-> userId, orderItems |-> items, totalPrice |-> total,
   orderStatus |-> PENDING, paymentStatus |-> PaymentPENDING]

\* createOrder is called; an empty item list is refused at once
CreateOrderCall(p) ==
  \E n \in 0..MaxItems : \E items \in (IF load + n <= MaxLoad THEN ItemLists(n) ELSE {}) :
    /\ Begin(p, [op |-> "createOrder", userId |-> Customer(p), items |-> items,
                 orderId |-> 0, status |-> ""])
    /\ IF items = <<>>
       THEN /\ pc' = pc
            /\ result' = Responses(p, Thrown("EmptyOrder", "", 0, 0))
            /\ loc' = [loc EXCEPT ![p] = NoLoc]
       ELSE /\ pc' = [pc EXCEPT ![p] = "co_getBook"]
            /\ result' = Responses(p, NoResult)
            /\ loc' = [loc EXCEPT ![p] = [NoLoc EXCEPT !.idx = 1]]
    /\ UNCHANGED <<stock, orders>>

\* loop head of the validation pass: entry check, then getBookById
CoGetBook(p) ==
  /\ pc[p] = "co_getBook"
  /\ LET item == req[p].items[loc[p].idx] IN
       IF InvalidItem(item)
       THEN Finish(p, Thrown("InvalidItem", "", 0, 0))
       ELSE IF item.bookId \notin catalog
       THEN Finish(p, Thrown("BookIdNotFound", item.bookId, 0, 0))
       ELSE /\ loc' = [loc EXCEPT ![p].book =
                        [price |-> price[item.bookId],
                         stockQuantity |-> stock[item.bookId]]]
            /\ pc' = [pc EXCEPT ![p] = "co_check"]
            /\ UNCHANGED <<result, tx>>
  /\ UNCHANGED <<stock, price, orders, req, load, hist, catalog, users>>

\* mutant: the validation pass takes the stock as soon as an entry is available
CoCheckEager(p) ==
  /\ pc[p] = "co_check"
  /\ LET item == req[p].items[loc[p].idx]
         book == loc[p].book
     IN IF ~(stock[item.bookId] >= item.quantity)
        THEN /\ Finish(p, Thrown("InsufficientStock", item.bookId,
                                 book.stockQuantity, item.quantity))
             /\ stock' = stock
        ELSE /\ loc' = [loc EXCEPT
                  ![p].orderItems = Append(@, [bookId |-> item.bookId,
                       quantity |-> item.quantity, unitPrice |-> book.price,
                       subtotal |-> book.price * item.quantity]),
                  ![p].totalPrice = @ + book.price * item.quantity,
                  ![p].idx = IF @ < Len(req[p].items) THEN @ + 1 ELSE 1,
                  ![p].book = NoLoc.book]
             /\ pc' = [pc EXCEPT ![p] =
                  IF loc[p].idx < Len(req[p].items) THEN "co_getBook" ELSE "co_txFind"]
             /\ stock' = [stock EXCEPT ![item.bookId] = @ - item.quantity]
             /\ UNCHANGED <<result, tx>>
  /\ UNCHANGED <<price, orders, req, load, hist, catalog, users>>

\* checkStockAvailability, then the rest of the loop body
CoCheck(p) ==
  /\ pc[p] = "co_check"
  /\ LET item == req[p].items[loc[p].idx]
         book == loc[p].book
     IN IF item.bookId \notin catalog
        THEN Finish(p, Thrown("BookNotFound", "", 0, 0))
        ELSE IF ~IsAvailable(stock[item.bookId], item.quantity)
        THEN Finish(p, Thrown("InsufficientStock", item.bookId,
                              book.stockQuantity, item.quantity))
        ELSE /\ loc' = [loc EXCEPT
                  ![p].orderItems = Append(@, OrderItem(item, book)),
                  ![p].totalPrice = @ + Subtotal(book.price, item.quantity),
                  ![p].idx = IF @ < Len(req[p].items) THEN @ + 1 ELSE 1,
                  ![p].book = NoLoc.book]   \* `book` is scoped to the loop body
             /\ pc' = [pc EXCEPT ![p] =
                  IF loc[p].idx < Len(req[p].items) THEN "co_getBook" ELSE "co_txFind"]
             /\ UNCHANGED <<result, tx>>
  /\ UNCHANGED <<stock, price, orders, req, load, hist, catalog, users>>

\* tx.book.findUnique and the check on its answer; a throw rolls back
CoTxFind(p) ==
  /\ pc[p] = "co_txFind"
  /\ LET item == loc[p].orderItems[loc[p].idx] IN
       IF item.bookId \notin catalog
            \/ TxInsufficient(TxStock(p, item.bookId), item.quantity)
       THEN /\ Finish(p, Thrown("StockValidationFailed", "", 0, 0))
            /\ stock' = RollbackStock(tx[p])
       ELSE /\ pc' = [pc EXCEPT ![p] = "co_txUpdate"]
            /\ UNCHANGED <<stock, loc, result, tx>>
  /\ UNCHANGED <<price, orders, req, load, hist, catalog, users>>

\* mutant: the decrement goes to the store outside the transaction
CoTxUpdateDirect(p) ==
  /\ pc[p] = "co_txUpdate"
  /\ LET item == loc[p].orderItems[loc[p].idx] IN
       /\ ~BookLockedByOther(p, item.bookId)
       /\ stock' = [stock EXCEPT ![item.bookId] = @ - item.quantity]
       /\ loc' = [loc EXCEPT ![p].idx = @ + 1]
       /\ pc' = [pc EXCEPT ![p] =
            IF loc[p].idx < Len(loc[p].orderItems) THEN "co_txFind" ELSE "co_txCreate"]
  /\ UNCHANGED <<tx, price, orders, req, result, load, hist, catalog, users>>

\* tx.book.update with `decrement`; waits while another transaction holds the row
CoTxUpdate(p) ==
  /\ pc[p] = "co_txUpdate"
  /\ LET item == loc[p].orderItems[loc[p].idx] IN
       IF item.bookId \notin catalog
       THEN \* the row was deleted meanwhile: the update throws, the transaction rolls back
            /\ Finish(p, Thrown("RecordNotFound", "", 0, 0))
            /\ stock' = RollbackStock(tx[p])
       ELSE /\ ~BookLockedByOther(p, item.bookId)
            /\ tx' = [tx EXCEPT ![p].delta[item.bookId] = Decremented(@, item.quantity),
                                ![p].locks = @ \cup {item.bookId}]
            /\ loc' = [loc EXCEPT ![p].idx = @ + 1]
            /\ pc' = [pc EXCEPT ![p] =
                 IF loc[p].idx < Len(loc[p].orderItems) THEN "co_txFind" ELSE "co_txCreate"]
            /\ UNCHANGED <<stock, result>>
  /\ UNCHANGED <<price, orders, req, load, hist, catalog, users>>

\* tx.order.create
CoTxCreate(p) ==
  /\ pc[p] = "co_txCreate"
  /\ tx' = [tx EXCEPT ![p].order =
              <<NewOrder(req[p].userId, loc[p].orderItems, loc[p].totalPrice)>>]
  /\ pc' = [pc EXCEPT ![p] = "co_commit"]
  /\ UNCHANGED <<stock, price, orders, req, loc, result, load, hist, catalog, users>>

\* the callback returned: the store commits the decrements and the order together
CoCommit(p) ==
  /\ pc[p] = "co_commit"
  /\ stock' = CommitStock(tx[p])
  /\ orders' = orders \o tx[p].order
  /\ Finish(p, Created)
  /\ UNCHANGED <<price, req, load, hist, catalog, users>>

\* ---- cancelOrder (orderService.ts) ----
Failed(kind) == [kind |-> kind, status |-> 0, book |-> "", available |-> 0, requested |-> 0]
OrderExists(id) == id \in 1..Len(orders)

CancelOrderCall(p) ==
  \E id \in 1..(Len(orders) + 1), u \in Users :
    /\ Begin(p, [op |-> "cancelOrder", userId |-> u, items |-> <<>>,
                 orderId |-> id, status |-> ""])
    /\ pc' = [pc EXCEPT ![p] = "ca_find"]
    /\ result' = Responses(p, NoResult)
    /\ loc' = [loc EXCEPT ![p] = NoLoc]
    /\ UNCHANGED <<stock, orders>>

\* mutant: the status of the order found is not checked
CaFindAnyStatus(p) ==
  /\ pc[p] = "ca_find"
  /\ LET id == req[p].orderId IN
       IF ~OrderExists(id) THEN Finish(p, Failed("OrderNotFound"))
       ELSE IF orders[id].userId # req[p].userId THEN Finish(p, Failed("NotOwner"))
       ELSE /\ pc' = [pc EXCEPT ![p] = "ca_items"]
            /\ UNCHANGED <<loc, result, tx>>
  /\ UNCHANGED <<stock, price, orders, req, load, hist, catalog, users>>

\* db.order.findUnique and the three checks on existingOrder
CaFind(p) ==
  /\ pc[p] = "ca_find"
  /\ LET id == req[p].orderId IN
       IF ~OrderExists(id) THEN Finish(p, Failed("OrderNotFound"))
       ELSE IF orders[id].userId # req[p].userId THEN Finish(p, Failed("NotOwner"))
       ELSE IF orders[id].orderStatus # PENDING THEN Finish(p, Failed("NotPending"))
       ELSE /\ pc' = [pc EXCEPT ![p] = "ca_items"]
            /\ UNCHANGED <<loc, result, tx>>
  /\ UNCHANGED <<stock, price, orders, req, load, hist, catalog, users>>

\* tx.orderItem.findMany
CaItems(p) ==
  /\ pc[p] = "ca_items"
  /\ loc' = [loc EXCEPT ![p].orderItems = orders[req[p].orderId].orderItems,
                        ![p].idx = 1]
  /\ pc' = [pc EXCEPT ![p] = "ca_restock"]
  /\ UNCHANGED <<stock, price, orders, req, tx, result, load, hist, catalog, users>>

\* tx.book.update with `increment`; waits while another transaction holds the row
CaRestock(p) ==
  /\ pc[p] = "ca_restock"
  /\ LET item == loc[p].orderItems[loc[p].idx] IN
       /\ ~BookLockedByOther(p, item.bookId)
       /\ tx' = [tx EXCEPT ![p].delta[item.bookId] = Incremented(@, item.quantity),
                           ![p].locks = @ \cup {item.bookId}]
       /\ loc' = [loc EXCEPT ![p].idx = @ + 1]
       /\ pc' = [pc EXCEPT ![p] =
            IF loc[p].idx < Len(loc[p].orderItems) THEN "ca_restock" ELSE "ca_update"]
  /\ UNCHANGED <<stock, price, orders, req, result, load, hist, catalog, users>>

\* tx.order.update to CANCELLED
CaUpdate(p) ==
  /\ pc[p] = "ca_update"
  /\ ~OrderLockedByOther(p, req[p].orderId)
  /\ tx' = [tx EXCEPT ![p].orderWrite = req[p].orderId]
  /\ pc' = [pc EXCEPT ![p] = "ca_commit"]
  /\ UNCHANGED <<stock, price, orders, req, loc, result, load, hist, catalog, users>>

\* the callback returned: the store commits the increments and the status together
CaCommit(p) ==
  /\ pc[p] = "ca_commit"
  /\ stock' = CommitStock(tx[p])
  /\ orders' = [orders EXCEPT ![tx[p].orderWrite].orderStatus = CANCELLED]
  /\ Finish(p, Returned)
  /\ UNCHANGED <<price, req, load, hist, catalog, users>>

\* ---- updateOrderStatus (orderService.ts) ----
UpdateOrderStatusCall(p) ==
  \E id \in 1..(Len(orders) + 1), st \in OrderStatus :
    /\ Begin(p, [op |-> "updateOrderStatus", userId |-> "", items |-> <<>>,
                 orderId |-> id, status |-> st])
    /\ pc' = [pc EXCEPT ![p] = "us_find"]
    /\ result' = Responses(p, NoResult)
    /\ loc' = [loc EXCEPT ![p] = NoLoc]
    /\ UNCHANGED <<stock, orders>>

\* db.order.findUnique
UsFind(p) ==
  /\ pc[p] = "us_find"
  /\ IF ~OrderExists(req[p].orderId) THEN Finish(p, Failed("OrderNotFound"))
     ELSE /\ pc' = [pc EXCEPT ![p] = "us_update"]
          /\ UNCHANGED <<loc, result, tx>>
  /\ UNCHANGED <<stock, price, orders, req, load, hist, catalog, users>>

\* mutant: the status is written only over PENDING
UsUpdateFromPending(p) ==
  /\ pc[p] = "us_update"
  /\ ~OrderLockedByOther(p, req[p].orderId)
  /\ orders' = IF orders[req[p].orderId].orderStatus = PENDING
               THEN [orders EXCEPT ![req[p].orderId].orderStatus = req[p].status]
               ELSE orders
  /\ Finish(p, Returned)
  /\ UNCHANGED <<stock, price, req, load, hist, catalog, users>>

\* db.order.update; waits while a transaction holds the order's row
UsUpdate(p) ==
  /\ pc[p] = "us_update"
  /\ ~OrderLockedByOther(p, req[p].orderId)
  /\ orders' = [orders EXCEPT ![req[p].orderId].orderStatus = req[p].status]
  /\ Finish(p, Returned)
  /\ UNCHANGED <<stock, price, req, load, hist, catalog, users>>

\* ---- updateBook (bookService.ts), behind PUT /api/books/{id} ----
NewPrices == {5}                 \* the price an update may set
\* the UpdateBookDTOs the route builds: `has` holds the fields that are defined
\* (a DTO with neither price nor stockQuantity carries other fields, as title)
UpdateBookDTOs ==
  { [has |-> h,
     price |-> IF "price" \in h THEN pr ELSE 0,
     stockQuantity |-> IF "stockQuantity" \in h THEN sq ELSE 0] :
      h \in SUBSET {"price", "stockQuantity"}, pr \in NewPrices, sq \in {0, MaxStock} }

UpdateBookCall(p) ==
  \E id \in Books \cup {GhostId}, dto \in UpdateBookDTOs :
    /\ Begin(p, [op |-> "updateBook", userId |-> "", items |-> <<>>,
                 orderId |-> 0, status |-> "", bookId |-> id, dto |-> dto])
    /\ pc' = [pc EXCEPT ![p] = "ub_find"]
    /\ result' = Responses(p, NoResult)
    /\ loc' = [loc EXCEPT ![p] = NoLoc]
    /\ UNCHANGED <<stock, orders>>

\* db.book.findUnique
UbFind(p) ==
  /\ pc[p] = "ub_find"
  /\ IF req[p].bookId \notin catalog THEN Finish(p, Failed("BookNotFound"))
     ELSE /\ pc' = [pc EXCEPT ![p] = "ub_update"]
          /\ UNCHANGED <<loc, result, tx>>
  /\ UNCHANGED <<stock, price, orders, req, load, hist, catalog, users>>

\* the row after `data: updateData`: a field is written when the DTO defines it
UpdatedField(dto, field, current) == IF field \in dto.has THEN dto[field] ELSE current

\* mutant: stockQuantity is written from the DTO whether or not it is defined
UbUpdateWritesStock(p) ==
  /\ pc[p] = "ub_update"
  /\ LET b == req[p].bookId
         dto == req[p].dto
     IN /\ ~BookLockedByOther(p, b)
        /\ price' = [price EXCEPT ![b] = UpdatedField(dto, "price", @)]
        /\ stock' = [stock EXCEPT ![b] = dto.stockQuantity]
  /\ Finish(p, Returned)
  /\ UNCHANGED <<orders, req, load, hist, catalog, users>>

\* the items of an order with book b's unit price replaced by pr
Repriced(items, b, pr) ==
  [k \in 1..Len(items) |->
     IF items[k].bookId = b THEN [items[k] EXCEPT !.unitPrice = pr] ELSE items[k]]
\* mutant: a new price is also written into the items of the orders placed before
UbUpdateReprices(p) ==
  /\ pc[p] = "ub_update"
  /\ LET b == req[p].bookId
         dto == req[p].dto
     IN /\ ~BookLockedByOther(p, b)
        /\ price' = [price EXCEPT ![b] = UpdatedField(dto, "price", @)]
        /\ stock' = [stock EXCEPT ![b] = UpdatedField(dto, "stockQuantity", @)]
        /\ orders' = [i \in 1..Len(orders) |->
                        [orders[i] EXCEPT !.orderItems =
                           Repriced(orders[i].orderItems, b, UpdatedField(dto, "price", price[b]))]]
  /\ Finish(p, Returned)
  /\ UNCHANGED <<req, load, hist, catalog, users>>

\* db.book.update; waits while a transaction holds the book's row
UbUpdate(p) ==
  /\ pc[p] = "ub_update"
  /\ LET b == req[p].bookId
         dto == req[p].dto
     IN /\ ~BookLockedByOther(p, b)
        /\ price' = [price EXCEPT ![b] = UpdatedField(dto, "price", @)]
        /\ stock' = [stock EXCEPT ![b] = UpdatedField(dto, "stockQuantity", @)]
  /\ Finish(p, Returned)
  /\ UNCHANGED <<orders, req, load, hist, catalog, users>>

\* ---- the store gives up a write that waits for a row lock ----
WaitsForLock(p) ==
  \/ /\ pc[p] \in {"co_txUpdate", "ca_restock"}
     /\ BookLockedByOther(p, loc[p].orderItems[loc[p].idx].bookId)
  \/ /\ pc[p] \in {"ub_update", "db_delete"}
     /\ BookLockedByOther(p, req[p].bookId)
  \/ /\ pc[p] \in {"ca_update", "us_update"}
     /\ OrderLockedByOther(p, req[p].orderId)

\* the rejected write throws out of the callback; the transaction is rolled back
LockTimeout(p) ==
  /\ WaitsForLock(p)
  /\ Finish(p, Thrown("LockTimeout", "", 0, 0))
  /\ stock' = RollbackStock(tx[p])
  /\ UNCHANGED <<price, orders, req, load, hist, catalog, users>>

\* ---- decrementStock (bookService.ts), an exported ledger operation ----
DecrementStockCall(p) ==
  \E b \in Books, q \in 1..MaxQty :
    /\ Begin(p, [op |-> "decrementStock", userId |-> "",
                 items |-> <<[bookId |-> b, quantity |-> q]>>,
                 orderId |-> 0, status |-> ""])
    /\ pc' = [pc EXCEPT ![p] = "ds_find"]
    /\ result' = Responses(p, NoResult)
    /\ loc' = [loc EXCEPT ![p] = NoLoc]
    /\ UNCHANGED <<stock, orders>>

\* db.book.findUnique and the checks on its answer
DsFind(p) ==
  /\ pc[p] = "ds_find"
  /\ LET item == req[p].items[1] IN
       IF item.bookId \notin catalog THEN Finish(p, Failed("BookNotFound"))
       ELSE IF stock[item.bookId] < item.quantity
       THEN Finish(p, Failed("InsufficientStock"))
       ELSE /\ pc' = [pc EXCEPT ![p] = "ds_update"]
            /\ UNCHANGED <<loc, result, tx>>
  /\ UNCHANGED <<stock, price, orders, req, load, hist, catalog, users>>

\* db.book.update with `decrement`, applied to the row's current value
DsUpdate(p) ==
  /\ pc[p] = "ds_update"
  /\ LET item == req[p].items[1] IN
       /\ ~BookLockedByOther(p, item.bookId)
       /\ stock' = [stock EXCEPT ![item.bookId] = Decremented(@, item.quantity)]
  /\ Finish(p, Returned)
  /\ UNCHANGED <<price, orders, req, load, hist, catalog, users>>

LedgerNext ==
  \E p \in Procs :
    \/ DecrementStockCall(p)
    \/ DsFind(p)
    \/ DsUpdate(p)

\* concurrent callers of the ledger operation alone
SpecLedger == Init /\ [][LedgerNext]_vars

Next ==
  \E p \in Procs :
    \/ CreateOrderCall(p)
    \/ CoGetBook(p)
    \/ CoCheck(p)
    \/ CoTxFind(p)
    \/ CoTxUpdate(p)
    \/ CoTxCreate(p)
    \/ CoCommit(p)
    \/ CancelOrderCall(p)
    \/ CaFind(p)
    \/ CaItems(p)
    \/ CaRestock(p)
    \/ CaUpdate(p)
    \/ CaCommit(p)
    \/ UpdateOrderStatusCall(p)
    \/ UsFind(p)
    \/ UsUpdate(p)
    \/ LockTimeout(p)

Spec == Init /\ [][Next]_vars

\* ---- POST /api/orders (orders/route.ts): the route in front of createOrder ----
\* the two checks on the body: no items, or an item with
\* `!item.bookId || !item.quantity || item.quantity <= 0`
RouteRejects(items) ==
  \/ items = <<>>
  \/ \E i \in 1..Len(items) : InvalidItem(items[i])
\* the 400 response of the route's validation
BadRequest == [kind |-> "BadRequest", status |-> 400, book |-> "", available |-> 0, requested |-> 0]

\* mutant: the route hands every body to createOrder
PostOrdersUnchecked(p) ==
  \E n \in 0..MaxItems : \E items \in (IF load + n <= MaxLoad THEN ItemLists(n) ELSE {}) :
    /\ Begin(p, [op |-> "createOrder", userId |-> Customer(p), items |-> items,
                 orderId |-> 0, status |-> ""])
    /\ IF items = <<>>
       THEN /\ pc' = pc
            /\ result' = Responses(p, Thrown("EmptyOrder", "", 0, 0))
            /\ loc' = [loc EXCEPT ![p] = NoLoc]
       ELSE /\ pc' = [pc EXCEPT ![p] = "co_getBook"]
            /\ result' = Responses(p, NoResult)
            /\ loc' = [loc EXCEPT ![p] = [NoLoc EXCEPT !.idx = 1]]
    /\ UNCHANGED <<stock, orders>>

\* a POST arrives: the body is validated as a whole, then createOrder is called
PostOrders(p) ==
  \E n \in 0..MaxItems : \E items \in (IF load + n <= MaxLoad THEN ItemLists(n) ELSE {}) :
    /\ Begin(p, [op |-> "createOrder", userId |-> Customer(p), items |-> items,
                 orderId |-> 0, status |-> ""])
    /\ IF RouteRejects(items)
       THEN /\ pc' = pc
            /\ result' = Responses(p, BadRequest)
            /\ loc' = [loc EXCEPT ![p] = NoLoc]
       ELSE /\ pc' = [pc EXCEPT ![p] = "co_getBook"]
            /\ result' = Responses(p, NoResult)
            /\ loc' = [loc EXCEPT ![p] = [NoLoc EXCEPT !.idx = 1]]
    /\ UNCHANGED <<stock, orders>>

\* the requests as they reach the services through the routes
ApiNext ==
  \E p \in Procs :
    \/ PostOrders(p)
    \/ CoGetBook(p)
    \/ CoCheck(p)
    \/ CoTxFind(p)
    \/ CoTxUpdate(p)
    \/ CoTxCreate(p)
    \/ CoCommit(p)
    \/ CancelOrderCall(p)
    \/ CaFind(p)
    \/ CaItems(p)
    \/ CaRestock(p)
    \/ CaUpdate(p)
    \/ CaCommit(p)
    \/ UpdateOrderStatusCall(p)
    \/ UsFind(p)
    \/ UsUpdate(p)
    \/ LockTimeout(p)

SpecApi == Init /\ [][ApiNext]_vars

\* ---- orders and catalogue updates together ----
\* slot r1 carries the requests on orders, slot r2 the administrator's updates
OrderSlot == "r1"
AdminSlot == "r2"
CatalogNext ==
  \/ \E p \in {OrderSlot} :
       \/ CreateOrderCall(p)
       \/ CoGetBook(p)
       \/ CoCheck(p)
       \/ CoTxFind(p)
       \/ CoTxUpdate(p)
       \/ CoTxCreate(p)
       \/ CoCommit(p)
       \/ CancelOrderCall(p)
       \/ CaFind(p)
       \/ CaItems(p)
       \/ CaRestock(p)
       \/ CaUpdate(p)
       \/ CaCommit(p)
       \/ UpdateOrderStatusCall(p)
       \/ UsFind(p)
       \/ UsUpdate(p)
  \/ \E p \in {AdminSlot} :
       \/ UpdateBookCall(p)
       \/ UbFind(p)
       \/ UbUpdate(p)
       \/ LockTimeout(p)

SpecCatalog == Init /\ [][CatalogNext]_vars

\* ---- requests on an order that is already in the store ----
\* the order createOrder commits for one entry of q copies of book b
PlacedOrder(userId, b, q) ==
  NewOrder(userId,
           <<OrderItem([bookId |-> b, quantity |-> q],
                       [price |-> BasePrice[b], stockQuantity |-> 0])>>,
           Subtotal(BasePrice[b], q))

\* the store after alice placed an order of q copies of book A from a stock of
\* at most MaxStock; no request is in progress
InitPlaced ==
  /\ \E q \in 1..MaxQty :
       /\ stock \in {s \in [Books -> 0..MaxStock] : s["A"] + q <= MaxStock /\ s["B"] >= 1}
       /\ orders = <<PlacedOrder("alice", "A", q)>>
  /\ price = BasePrice
  /\ pc = [p \in Procs |-> "idle"]
  /\ req = [p \in Procs |-> NoReq]
  /\ loc = [p \in Procs |-> NoLoc]
  /\ tx = [p \in Procs |-> NoTx]
  /\ result = [p \in Procs |-> NoResult]
  /\ load = 0
  /\ stockAtStart = [p \in Procs |-> stock]
  /\ ordersAtStart = [p \in Procs |-> orders]
  /\ usersAtStart = [p \in Procs |-> <<>>]
  /\ concurrent = [p \in Procs |-> FALSE]
  /\ initStock = stock
  /\ catalog = Books
  /\ users = <<>>

\* the requests made on orders: cancelOrder and updateOrderStatus
PlacedNext ==
  \E p \in Procs :
    \/ CancelOrderCall(p)
    \/ CaFind(p)
    \/ CaItems(p)
    \/ CaRestock(p)
    \/ CaUpdate(p)
    \/ CaCommit(p)
    \/ UpdateOrderStatusCall(p)
    \/ UsFind(p)
    \/ UsUpdate(p)
    \/ LockTimeout(p)

SpecPlaced == InitPlaced /\ [][PlacedNext]_vars

\* ---- authentication of a request (lib/auth.ts, lib/authorization.ts) ----
ADMIN == "ADMIN"
CUSTOMER == "CUSTOMER"
JWT_SECRET == "JWT_SECRET"       \* the key the server signs and verifies with
\* a token: the role of its payload and the key it is signed with
Tokens == [role : {ADMIN, CUSTOMER}, key : {JWT_SECRET, "other key"}]
NoToken == [role |-> "", key |-> ""]
\* values of the Authorization header; NoAuthorization is the absent header
NoAuthorization == [scheme |-> "", token |-> NoToken]
AuthorizationHeaders ==
  {NoAuthorization}
    \cup [scheme : {"Bearer"}, token : Tokens]
    \cup {[scheme |-> "Basic", token |-> [role |-> ADMIN, key |-> JWT_SECRET]]}
\* values of x-user-id, x-user-email and x-user-role; "" is an absent header
NoUserHeaders == [id |-> "", email |-> "", role |-> ""]
UserHeaders ==
  { NoUserHeaders,
    [id |-> "u", email |-> "", role |-> ADMIN],
    [id |-> "u", email |-> "u@x", role |-> ADMIN],
    [id |-> "u", email |-> "u@x", role |-> CUSTOMER] }
Headers == [authorization : AuthorizationHeaders, user : UserHeaders]

NoUser == [userId |-> "", role |-> ""]    \* null
\* 'Bearer <token>' gives the token, anything else null
extractTokenFromHeader(authHeader) ==
  IF authHeader = NoAuthorization THEN NoToken
  ELSE IF authHeader.scheme # "Bearer" THEN NoToken
  ELSE authHeader.token
\* jwtVerify with the server's key: the payload, or null when it throws
verifyToken(token) ==
  IF token.key = JWT_SECRET THEN [userId |-> "token user", role |-> token.role]
  ELSE NoUser
\* the x-user-* headers when all three are present, else the verified token
getAuthenticatedUser(headers) ==
  IF headers.user.id # "" /\ headers.user.email # "" /\ headers.user.role # ""
  THEN [userId |-> headers.user.id, role |-> headers.user.role]
  ELSE LET token == extractTokenFromHeader(headers.authorization) IN
         IF token = NoToken THEN NoUser ELSE verifyToken(token)
isAdmin(user) == user.role = ADMIN

\* the 401 and 403 responses of the admin routes
Unauthorized == [kind |-> "Unauthorized", status |-> 401, book |-> "", available |-> 0, requested |-> 0]
Forbidden == [kind |-> "Forbidden", status |-> 403, book |-> "", available |-> 0, requested |-> 0]

\* the head of an admin route: getAuthenticatedUser, requireAdmin, then the
\* service is called at its first step
AdminRoute(p, headers, first) ==
  LET user == getAuthenticatedUser(headers) IN
    /\ IF user = NoUser
       THEN pc' = pc /\ result' = Responses(p, Unauthorized)
       ELSE IF ~isAdmin(user)
       THEN pc' = pc /\ result' = Responses(p, Forbidden)
       ELSE pc' = [pc EXCEPT ![p] = first] /\ result' = Responses(p, NoResult)
    /\ loc' = [loc EXCEPT ![p] = NoLoc]
    /\ UNCHANGED <<stock, orders>>

\* PUT /api/orders/{id} of an order in the store, with a valid status
PutOrderStatus(p) ==
  \E headers \in Headers, id \in 1..Len(orders), st \in {SHIPPED, DELIVERED} :
    /\ Begin(p, [op |-> "updateOrderStatus", userId |-> "", items |-> <<>>,
                 orderId |-> id, status |-> st, headers |-> headers])
    /\ AdminRoute(p, headers, "us_find")

\* the admin route of orders and the service behind it
AdminNext ==
  \E p \in Procs :
    \/ PutOrderStatus(p)
    \/ UsFind(p)
    \/ UsUpdate(p)

SpecAdmin == InitPlaced /\ [][AdminNext]_vars

\* ---- pagination of the list operations (getOrders, getBooks) ----
DefaultPage == 1
DefaultSize == 10
MaxSize == 100
\* a list query: `has` holds the parameters that are present; a parameter that
\* does not parse as a number (NaN) counts as absent, like 0 it is falsy
Queries ==
  { [has |-> h,
     page |-> IF "page" \in h THEN pg ELSE 0,
     size |-> IF "size" \in h THEN sz ELSE 0] :
      h \in SUBSET {"page", "size"}, pg \in {-1, 0, 2}, sz \in {-1, 0, 1, 200} }
DefaultQuery == [has |-> {}, page |-> 0, size |-> 0]
Min(a, b) == IF a < b THEN a ELSE b
\* `query.page || 1`
PageOf(query) == IF "page" \in query.has /\ query.page # 0 THEN query.page ELSE DefaultPage
\* `Math.min(query.size || 10, 100)`
SizeOf(query) ==
  Min(IF "size" \in query.has /\ query.size # 0 THEN query.size ELSE DefaultSize, MaxSize)
\* `(page - 1) * size`
SkipOf(query) == (PageOf(query) - 1) * SizeOf(query)
\* `Math.ceil(totalElements / size)` for totalElements >= 0 and size # 0
TotalPages(totalElements, size) ==
  IF size > 0 THEN (totalElements + size - 1) \div size
  ELSE -(totalElements \div (-size))
Pagination(query, totalElements) ==
  [page |-> PageOf(query), size |-> SizeOf(query), totalElements |-> totalElements,
   totalPages |-> TotalPages(totalElements, SizeOf(query))]

Reverse(seq) == [i \in 1..Len(seq) |-> seq[Len(seq) + 1 - i]]
\* the store's findMany over the selected rows: `skip` rows are passed over and
\* `take` rows returned; a negative take counts from the end of the ordering
FindMany(rows, skip, take) ==
  IF take >= 0 THEN SubSeq(rows, skip + 1, Min(skip + take, Len(rows)))
  ELSE Reverse(SubSeq(Reverse(rows), skip + 1, Min(skip - take, Len(rows))))

\* ---- the routes that read orders (orders/route.ts GET, orders/[id] GET) ----
\* the users getAuthenticatedUser yields
RouteUsers ==
  { [userId |-> "alice", role |-> CUSTOMER],
    [userId |-> "bob", role |-> CUSTOMER],
    [userId |-> "root", role |-> ADMIN] }
canAccessResource(user, resourceOwnerId) == isAdmin(user) \/ user.userId = resourceOwnerId
NotFound == [kind |-> "OrderNotFound", status |-> 404, book |-> "", available |-> 0, requested |-> 0]
ServerError == [kind |-> "ServerError", status |-> 500, book |-> "", available |-> 0, requested |-> 0]
\* a 200 response carrying order ids
Listed(data, pagination) ==
  [kind |-> "ok", status |-> 200, book |-> "", available |-> 0, requested |-> 0,
   data |-> data, pagination |-> pagination]

\* mutant: the where clause is empty for every user
WhereEveryOrder(userId, admin, o) == TRUE
\* `isAdmin ? {} : { userId }` applied to order row o
Where(userId, admin, o) == admin \/ o.userId = userId
\* ids of the orders the where clause selects, newest first
Selected(userId, admin) ==
  SelectSeq(Reverse([i \in 1..Len(orders) |-> i]),
            LAMBDA i : Where(userId, admin, orders[i]))

\* GET /api/orders
GetOrders(p) ==
  \E user \in RouteUsers \cup {NoUser}, query \in Queries :
    /\ Begin(p, [op |-> "getOrders", userId |-> user.userId, items |-> <<>>,
                 orderId |-> 0, status |-> "", user |-> user, query |-> query])
    /\ IF user = NoUser
       THEN pc' = pc /\ result' = Responses(p, Unauthorized)
       ELSE pc' = [pc EXCEPT ![p] = "go_count"] /\ result' = Responses(p, NoResult)
    /\ loc' = [loc EXCEPT ![p] = NoLoc]
    /\ UNCHANGED <<stock, orders>>

\* db.order.count
GoCount(p) ==
  /\ pc[p] = "go_count"
  /\ loc' = [loc EXCEPT ![p] =
              [totalElements |-> Len(Selected(req[p].userId, isAdmin(req[p].user)))]]
  /\ pc' = [pc EXCEPT ![p] = "go_find"]
  /\ UNCHANGED <<stock, price, orders, req, tx, result, load, hist, catalog, users>>

\* db.order.findMany, which refuses a negative skip, and the response
GoFind(p) ==
  /\ pc[p] = "go_find"
  /\ LET query == req[p].query IN
       IF SkipOf(query) < 0
       THEN Finish(p, ServerError)
       ELSE Finish(p, Listed(FindMany(Selected(req[p].userId, isAdmin(req[p].user)),
                                      SkipOf(query), SizeOf(query)),
                             Pagination(query, loc[p].totalElements)))
  /\ UNCHANGED <<stock, price, orders, req, load, hist, catalog, users>>

\* GET /api/orders/{id}
GetOrder(p) ==
  \E user \in RouteUsers \cup {NoUser}, id \in 1..(Len(orders) + 1) :
    /\ Begin(p, [op |-> "getOrder", userId |-> user.userId, items |-> <<>>,
                 orderId |-> id, status |-> "", user |-> user])
    /\ IF user = NoUser
       THEN pc' = pc /\ result' = Responses(p, Unauthorized)
       ELSE pc' = [pc EXCEPT ![p] = "gi_find"] /\ result' = Responses(p, NoResult)
    /\ loc' = [loc EXCEPT ![p] = NoLoc]
    /\ UNCHANGED <<stock, orders>>

\* getOrderById and the permission check
GiFind(p) ==
  /\ pc[p] = "gi_find"
  /\ LET id == req[p].orderId IN
       IF ~OrderExists(id) THEN Finish(p, NotFound)
       ELSE IF ~canAccessResource(req[p].user, orders[id].userId) THEN Finish(p, Forbidden)
       ELSE Finish(p, Listed(<<id>>, Pagination(DefaultQuery, 1)))
  /\ UNCHANGED <<stock, price, orders, req, load, hist, catalog, users>>

\* a store holding one order of alice and one of bob, no request in progress
InitTwoOrders ==
  /\ stock = [b \in Books |-> MaxStock - 1]
  /\ orders = <<PlacedOrder("alice", "A", 1), PlacedOrder("bob", "B", 1)>>
  /\ price = BasePrice
  /\ pc = [p \in Procs |-> "idle"]
  /\ req = [p \in Procs |-> NoReq]
  /\ loc = [p \in Procs |-> NoLoc]
  /\ tx = [p \in Procs |-> NoTx]
  /\ result = [p \in Procs |-> NoResult]
  /\ load = 0
  /\ stockAtStart = [p \in Procs |-> stock]
  /\ ordersAtStart = [p \in Procs |-> orders]
  /\ usersAtStart = [p \in Procs |-> <<>>]
  /\ concurrent = [p \in Procs |-> FALSE]
  /\ initStock = stock
  /\ catalog = Books
  /\ users = <<>>

ReadNext ==
  \E p \in Procs :
    \/ GetOrders(p)
    \/ GoCount(p)
    \/ GoFind(p)
    \/ GetOrder(p)
    \/ GiFind(p)

SpecRead == InitTwoOrders /\ [][ReadNext]_vars

\* ---- POST /api/orders with its authentication (orders/route.ts POST) ----
\* the request is answered 401 without a user; no role is looked at; the body
\* is validated and createOrder is called with the user's id
PostOrdersAs(p) ==
  \E user \in RouteUsers \cup {NoUser}, n \in 0..MaxItems :
    \E items \in (IF load + n <= MaxLoad THEN ItemLists(n) ELSE {}) :
      /\ Begin(p, [op |-> "createOrder", userId |-> user.userId, items |-> items,
                   orderId |-> 0, status |-> "", user |-> user])
      /\ IF user = NoUser
         THEN /\ pc' = pc
              /\ result' = Responses(p, Unauthorized)
              /\ loc' = [loc EXCEPT ![p] = NoLoc]
         ELSE IF RouteRejects(items)
         THEN /\ pc' = pc
              /\ result' = Responses(p, BadRequest)
              /\ loc' = [loc EXCEPT ![p] = NoLoc]
         ELSE /\ pc' = [pc EXCEPT ![p] = "co_getBook"]
              /\ result' = Responses(p, NoResult)
              /\ loc' = [loc EXCEPT ![p] = [NoLoc EXCEPT !.idx = 1]]
      /\ UNCHANGED <<stock, orders>>

PostNext ==
  \E p \in Procs :
    \/ PostOrdersAs(p)
    \/ CoGetBook(p)
    \/ CoCheck(p)
    \/ CoTxFind(p)
    \/ CoTxUpdate(p)
    \/ CoTxCreate(p)
    \/ CoCommit(p)
    \/ LockTimeout(p)

SpecPost == Init /\ [][PostNext]_vars

\* ---- deleteBook (bookService.ts) ----
RECURSIVE OrderItemCount(_, _)
\* `db.orderItem.count({ where: { bookId } })` over the committed orders os
OrderItemCount(os, b) ==
  IF os = <<>> THEN 0
  ELSE Len(SelectSeq(os[1].orderItems, LAMBDA it : it.bookId = b))
       + OrderItemCount(Tail(os), b)
\* the relation of OrderItem.bookId to Book.id as the store enforces it: the
\* row of a book that an order item references is not deleted
ForeignKeyRestricts(b) == OrderItemCount(orders, b) > 0

DeleteBookCall(p) ==
  \E b \in Books :
    /\ Begin(p, [op |-> "deleteBook", userId |-> "", items |-> <<>>,
                 orderId |-> 0, status |-> "", bookId |-> b])
    /\ pc' = [pc EXCEPT ![p] = "db_find"]
    /\ result' = Responses(p, NoResult)
    /\ loc' = [loc EXCEPT ![p] = NoLoc]
    /\ UNCHANGED <<stock, orders>>

\* db.book.findUnique
DbFind(p) ==
  /\ pc[p] = "db_find"
  /\ IF req[p].bookId \notin catalog
     THEN Finish(p, Failed("BookNotFound"))
     ELSE pc' = [pc EXCEPT ![p] = "db_count"] /\ UNCHANGED <<loc, tx, result>>
  /\ UNCHANGED <<stock, price, orders, req, load, hist, catalog, users>>

\* mutant: the order items are not counted
DbCountSkipped(p) ==
  /\ pc[p] = "db_count"
  /\ pc' = [pc EXCEPT ![p] = "db_delete"]
  /\ UNCHANGED <<stock, price, orders, req, loc, tx, result, load, hist, catalog, users>>

\* db.orderItem.count and the test of its answer
DbCount(p) ==
  /\ pc[p] = "db_count"
  /\ IF OrderItemCount(orders, req[p].bookId) > 0
     THEN Finish(p, Failed("BookReferenced"))
     ELSE pc' = [pc EXCEPT ![p] = "db_delete"] /\ UNCHANGED <<loc, tx, result>>
  /\ UNCHANGED <<stock, price, orders, req, load, hist, catalog, users>>

\* db.book.delete; waits while a transaction holds the book's row
DbDelete(p) ==
  /\ pc[p] = "db_delete"
  /\ LET b == req[p].bookId IN
       /\ ~BookLockedByOther(p, b)
       /\ IF b \notin catalog
          THEN Finish(p, Failed("RecordNotFound")) /\ UNCHANGED catalog
          ELSE IF ForeignKeyRestricts(b)
          THEN Finish(p, Failed("ForeignKeyViolation")) /\ UNCHANGED catalog
          ELSE Finish(p, Returned) /\ catalog' = catalog \ {b}
  /\ UNCHANGED <<stock, price, orders, req, load, hist, users>>

\* createOrder in one request slot and deleteBook in the other
DeleteNext ==
  \/ \E p \in {OrderSlot} :
       \/ CreateOrderCall(p)
       \/ CoGetBook(p)
       \/ CoCheck(p)
       \/ CoTxFind(p)
       \/ CoTxUpdate(p)
       \/ CoTxCreate(p)
       \/ CoCommit(p)
  \/ \E p \in {AdminSlot} :
       \/ DeleteBookCall(p)
       \/ DbFind(p)
       \/ DbCount(p)
       \/ DbDelete(p)
       \/ LockTimeout(p)

SpecDelete == Init /\ [][DeleteNext]_vars

\* ---- POST /api/register and registerUser (authService.ts) ----
MinPasswordLength == 6
\* an email as the request writes it: its letters, whether some are capitals,
\* and whether it has the shape `^[^\s@]+@[^\s@]+\.[^\s@]+$`
Emails == [letters : {"ann@x.io", "bob@x.io"}, capitals : BOOLEAN, shaped : {TRUE}]
            \cup {[letters |-> "ann", capitals |-> FALSE, shaped |-> FALSE]}
NoEmail == [letters |-> "", capitals |-> FALSE, shaped |-> FALSE]
\* `body.email.toLowerCase().trim()`: a shaped email holds no white space
Normalised(email) == [email EXCEPT !.capitals = FALSE]
emailRegexTest(email) == email.shaped
\* request bodies; an absent field is "" (name), NoEmail, or a password of length 0
RegisterBodies ==
  [name : {"Ann"}, email : {e \in Emails : e.shaped}, passwordLength : {MinPasswordLength}]
    \cup { [name |-> "", email |-> CHOOSE e \in Emails : e.shaped, passwordLength |-> MinPasswordLength],
           [name |-> "Ann", email |-> NoEmail, passwordLength |-> MinPasswordLength],
           [name |-> "Ann", email |-> CHOOSE e \in Emails : ~e.shaped, passwordLength |-> MinPasswordLength],
           [name |-> "Ann", email |-> CHOOSE e \in Emails : e.shaped, passwordLength |-> 0],
           [name |-> "Ann", email |-> CHOOSE e \in Emails : e.shaped,
            passwordLength |-> MinPasswordLength - 1] }
\* the three 400 answers of the route
RegisterRejects(body) ==
  \/ body.name = "" \/ body.email = NoEmail \/ body.passwordLength = 0
  \/ ~emailRegexTest(body.email)
  \/ body.passwordLength < MinPasswordLength
\* `message.includes('already registered')` gives 409, any other error 500
RegisterErrorStatus(kind) == IF kind = "AlreadyRegistered" THEN 409 ELSE 500
RegisterError(kind) ==
  [kind |-> kind, status |-> RegisterErrorStatus(kind), book |-> "", available |-> 0, requested |-> 0]
\* a row of the user table with this email exists
EmailRegistered(rows, email) == \E i \in 1..Len(rows) : rows[i].email = email

PostRegister(p) ==
  \E body \in RegisterBodies :
    /\ Begin(p, [op |-> "registerUser", userId |-> "", items |-> <<>>, orderId |-> 0,
                 status |-> "", body |-> body, email |-> Normalised(body.email)])
    /\ IF RegisterRejects(body)
       THEN pc' = pc /\ result' = Responses(p, BadRequest)
       ELSE pc' = [pc EXCEPT ![p] = "ru_find"] /\ result' = Responses(p, NoResult)
    /\ loc' = [loc EXCEPT ![p] = NoLoc]
    /\ UNCHANGED <<stock, orders>>

\* mutant: the email is not looked up before the row is created
RuFindSkipped(p) ==
  /\ pc[p] = "ru_find"
  /\ pc' = [pc EXCEPT ![p] = "ru_create"]
  /\ UNCHANGED <<stock, price, orders, req, loc, tx, result, load, hist, catalog, users>>

\* db.user.findUnique by email
RuFind(p) ==
  /\ pc[p] = "ru_find"
  /\ IF EmailRegistered(users, req[p].email)
     THEN Finish(p, RegisterError("AlreadyRegistered"))
     ELSE pc' = [pc EXCEPT ![p] = "ru_create"] /\ UNCHANGED <<loc, tx, result>>
  /\ UNCHANGED <<stock, price, orders, req, load, hist, catalog, users>>

\* hashPassword, then db.user.create: email is a unique field of the table, so
\* the store refuses a second row with the same email
RuCreate(p) ==
  /\ pc[p] = "ru_create"
  /\ IF EmailRegistered(users, req[p].email)
     THEN Finish(p, RegisterError("UniqueConstraintFailed")) /\ UNCHANGED users
     ELSE /\ users' = Append(users, [email |-> req[p].email, role |-> CUSTOMER])
          /\ Finish(p, Created)
  /\ UNCHANGED <<stock, price, orders, req, load, hist, catalog>>

\* an empty user table and a full catalogue, no request in progress
InitRegister ==
  /\ stock = [b \in Books |-> MaxStock]
  /\ orders = <<>>
  /\ price = BasePrice
  /\ pc = [p \in Procs |-> "idle"]
  /\ req = [p \in Procs |-> NoReq]
  /\ loc = [p \in Procs |-> NoLoc]
  /\ tx = [p \in Procs |-> NoTx]
  /\ result = [p \in Procs |-> NoResult]
  /\ load = 0
  /\ stockAtStart = [p \in Procs |-> stock]
  /\ ordersAtStart = [p \in Procs |-> <<>>]
  /\ usersAtStart = [p \in Procs |-> <<>>]
  /\ concurrent = [p \in Procs |-> FALSE]
  /\ initStock = stock
  /\ catalog = Books
  /\ users = <<>>

RegisterNext ==
  \E p \in Procs :
    \/ PostRegister(p)
    \/ RuFind(p)
    \/ RuCreate(p)

SpecRegister == InitRegister /\ [][RegisterNext]_vars

\* ---- types ----
TypeOK ==
  /\ stock \in [Books -> Int]
  /\ load \in 0..MaxLoad
  /\ Len(orders) <= MaxLoad
  /\ \A p \in Procs : tx[p].locks \subseteq Books

\* ---- C1 ----
\* C1: in every reachable state every book's stockQuantity is at least 0.
StockNeverNegative == \A b \in Books : stock[b] >= 0

\* ---- C2 ----
\* all request slots ran createOrder concurrently from the initial state, each
\* asking for the whole stock of book b, and all have ended
FullStockRace(b) ==
  /\ initStock[b] > 0
  /\ \A p \in Procs :
       /\ pc[p] = "idle"
       /\ req[p].op = "createOrder"
       /\ req[p].items = <<[bookId |-> b, quantity |-> initStock[b]]>>
       /\ stockAtStart[p] = initStock
       /\ result[p].kind # "none"
  /\ \E p \in Procs : concurrent[p]
\* C2: when all request slots run createOrder concurrently, each asking for the
\* whole stock of the same book, exactly one call succeeds, the others fail with
\* InsufficientStock, and the book ends at its initial stock minus that quantity.
OneWinnerOfFullStockRace ==
  \A b \in Books :
    FullStockRace(b) =>
      /\ Cardinality({p \in Procs : result[p].kind = "ok"}) = 1
      /\ \A p \in Procs : result[p].kind \in {"ok", "InsufficientStock"}
      /\ stock[b] = 0

\* ---- C3 ----
\* C3: decrementStock never subtracts when the book's stock at the moment of the
\* subtraction is less than the quantity (check and subtraction are one step).
DecrementStockIsConditional ==
  [][\A p \in Procs :
       (pc[p] = "ds_update" /\ pc'[p] = "idle" /\ result'[p].kind = "ok")
         => stock[req[p].items[1].bookId] >= req[p].items[1].quantity]_vars

\* ---- calls that ran alone ----
\* p's call has ended, no other call overlapped it, and none was made since
EndedAlone(p, op) ==
  /\ pc[p] = "idle"
  /\ req[p].op = op
  /\ result[p].kind # "none"
  /\ ~concurrent[p]
\* the entry names an existing book and a positive quantity
WellFormed(item) == item.bookId \in Books /\ item.quantity > 0

\* ---- C4 ----
\* C4: a createOrder that ran alone with an entry asking for more than its book's
\* stock fails, leaves every book's stock as it was and creates no order.
RejectedOrderChangesNothing ==
  \A p \in Procs :
    ( /\ EndedAlone(p, "createOrder")
      /\ \E i \in 1..Len(req[p].items) :
           /\ WellFormed(req[p].items[i])
           /\ req[p].items[i].quantity > stockAtStart[p][req[p].items[i].bookId] )
    => /\ result[p].kind # "ok"
       /\ stock = stockAtStart[p]
       /\ orders = ordersAtStart[p]
\* a two-entry order was rejected for its second entry while the first was in stock
RejectedOrderWitness ==
  \E p \in Procs :
    /\ EndedAlone(p, "createOrder")
    /\ Len(req[p].items) = 2
    /\ req[p].items[1].bookId # req[p].items[2].bookId
    /\ WellFormed(req[p].items[1]) /\ WellFormed(req[p].items[2])
    /\ req[p].items[1].quantity <= stockAtStart[p][req[p].items[1].bookId]
    /\ req[p].items[2].quantity > stockAtStart[p][req[p].items[2].bookId]
    /\ result[p].kind = "InsufficientStock"

\* ---- C5 ----
\* C5: when the stock check inside createOrder's transaction fails, the step that
\* ends the call leaves the committed stock and orders as they were, and a call
\* that ran alone ends with the stock and the orders it started from.
FailedTransactionRolledBack ==
  /\ [](\A p \in Procs :
          (EndedAlone(p, "createOrder") /\ result[p].kind = "StockValidationFailed")
            => (stock = stockAtStart[p] /\ orders = ordersAtStart[p]))
  /\ [][\A p \in Procs :
          (pc[p] = "co_txFind" /\ pc'[p] = "idle")
            => (stock' = stock /\ orders' = orders)]_vars
\* a call that ran alone failed in its transaction on the second entry for one book
FailedTransactionWitness ==
  \E p \in Procs :
    /\ EndedAlone(p, "createOrder")
    /\ result[p].kind = "StockValidationFailed"
    /\ Len(req[p].items) = 2
    /\ req[p].items[1].bookId = req[p].items[2].bookId
    /\ stock = stockAtStart[p]

\* ---- C6 ----
\* C6: the committed stock of a book goes down only in a step that also adds
\* one order, and an order is added only in such a step; the decreases of that
\* step are exactly the quantities of the new order's items.
DecrementsAndOrderTogether ==
  [][ ((\E b \in Books : stock'[b] < stock[b]) \/ Len(orders') # Len(orders))
        => /\ Len(orders') = Len(orders) + 1
           /\ \A b \in Books :
                stock[b] - stock'[b] = TotalQty(orders'[Len(orders')].orderItems, b) ]_vars
\* an order was committed by a call that another request overlapped and that
\* request is still in progress
DecrementsAndOrderWitness ==
  \E p \in Procs, q \in Procs :
    /\ pc[p] = "idle" /\ req[p].op = "createOrder" /\ result[p].kind = "ok"
    /\ concurrent[p]
    /\ pc[q] # "idle"
    /\ Len(orders) = Len(ordersAtStart[p]) + 1
    /\ \E b \in Books : stock[b] < stockAtStart[p][b]

\* ---- C7 ----
\* C7: a createOrder that ran alone with well-formed entries whose totals per book
\* fit the stock succeeds, lowers each book's stock by exactly the total asked of
\* it, and adds exactly one order with one item per entry, in the entries' order.
PlacedOrderDecrementsExactly ==
  \A p \in Procs :
    ( /\ EndedAlone(p, "createOrder")
      /\ req[p].items # <<>>
      /\ \A i \in 1..Len(req[p].items) : WellFormed(req[p].items[i])
      /\ \A b \in Books : TotalQty(req[p].items, b) <= stockAtStart[p][b] )
    => /\ result[p].kind = "ok"
       /\ \A b \in Books : stock[b] = stockAtStart[p][b] - TotalQty(req[p].items, b)
       /\ Len(orders) = Len(ordersAtStart[p]) + 1
       /\ SubSeq(orders, 1, Len(ordersAtStart[p])) = ordersAtStart[p]
       /\ LET o == orders[Len(orders)] IN
            /\ o.userId = req[p].userId
            /\ Len(o.orderItems) = Len(req[p].items)
            /\ \A i \in 1..Len(req[p].items) :
                 /\ o.orderItems[i].bookId = req[p].items[i].bookId
                 /\ o.orderItems[i].quantity = req[p].items[i].quantity
\* an order of quantity 2 of one book was placed alone
PlacedOrderWitness ==
  \E p \in Procs :
    /\ EndedAlone(p, "createOrder")
    /\ result[p].kind = "ok"
    /\ \E i \in 1..Len(req[p].items) : req[p].items[i].quantity = 2
    /\ \E b \in Books : stock[b] = stockAtStart[p][b] - 2

\* ---- C8 ----
\* C8: an order enters the store with status PENDING and paymentStatus PENDING,
\* and in every order each item's subtotal is unitPrice x quantity and totalPrice
\* is the sum of the items' subtotals.
OrderTotalsConsistent ==
  /\ [](\A i \in 1..Len(orders) :
          /\ orders[i].paymentStatus = PaymentPENDING
          /\ \A k \in 1..Len(orders[i].orderItems) :
               orders[i].orderItems[k].subtotal =
                 orders[i].orderItems[k].unitPrice * orders[i].orderItems[k].quantity
          /\ orders[i].totalPrice = SumSubtotals(orders[i].orderItems))
  /\ [][\A i \in (Len(orders) + 1)..Len(orders') :
          orders'[i].orderStatus = PENDING]_vars
\* an order with two items of different subtotals exists
OrderTotalsWitness ==
  \E i \in 1..Len(orders) :
    /\ Len(orders[i].orderItems) = 2
    /\ orders[i].orderItems[1].quantity = 2
    /\ orders[i].orderItems[1].subtotal # orders[i].orderItems[2].subtotal
    /\ orders[i].totalPrice > orders[i].orderItems[1].subtotal

\* ---- C9 ----
\* C9: a createOrder whose stock check fails inside the transaction ends with an
\* InsufficientStock error naming the entry's book, the stock found and the
\* quantity asked, answered with HTTP 400.
CommitTimeFailureIsInsufficientStock ==
  [][\A p \in Procs :
       (pc[p] = "co_txFind" /\ pc'[p] = "idle")
         => LET item == loc[p].orderItems[loc[p].idx] IN
              /\ result'[p].kind = "InsufficientStock"
              /\ result'[p].status = 400
              /\ result'[p].book = item.bookId
              /\ result'[p].available = TxStock(p, item.bookId)
              /\ result'[p].requested = item.quantity]_vars

\* ---- C10 ----
\* when p's call was made its order existed, was p's caller's and was PENDING
OwnPendingAtStart(p) ==
  /\ req[p].orderId \in 1..Len(ordersAtStart[p])
  /\ ordersAtStart[p][req[p].orderId].userId = req[p].userId
  /\ ordersAtStart[p][req[p].orderId].orderStatus = PENDING
\* C10: a cancelOrder by the owner of a PENDING order that ran alone succeeds,
\* raises each book's stock by the quantities of the order's items and sets the
\* order to CANCELLED, changing nothing else; when the order's placement and this
\* cancellation are the run's only calls, the stock is the initial stock again.
CancelRestoresStock ==
  \A p \in Procs :
    (EndedAlone(p, "cancelOrder") /\ OwnPendingAtStart(p))
    => LET id == req[p].orderId IN
         /\ result[p].kind = "ok"
         /\ orders = [ordersAtStart[p] EXCEPT ![id].orderStatus = CANCELLED]
         /\ \A b \in Books :
              stock[b] = stockAtStart[p][b] + TotalQty(orders[id].orderItems, b)
         /\ (Len(orders) = 1 /\ load = Cost([items |-> orders[1].orderItems]) + 1)
              => stock = initStock
\* the owner cancelled, alone, the run's only order, which held quantity 2 of a book
CancelRestoresWitness ==
  \E p \in Procs :
    /\ EndedAlone(p, "cancelOrder") /\ OwnPendingAtStart(p)
    /\ result[p].kind = "ok"
    /\ Len(orders) = 1
    /\ load = Cost([items |-> orders[1].orderItems]) + 1
    /\ \E k \in 1..Len(orders[1].orderItems) : orders[1].orderItems[k].quantity = 2
    /\ stock = initStock

\* ---- C11 ----
\* C11: the step that applies a cancellation (commits its restock and the
\* CANCELLED status) finds the order PENDING in the store, so an order that
\* updateOrderStatus moved to SHIPPED or DELIVERED meanwhile is never restocked
\* or cancelled by cancelOrder.
CancelAppliedOnlyWhilePending ==
  [][\A p \in Procs :
       (pc[p] = "ca_commit" /\ pc'[p] = "idle")
         => orders[req[p].orderId].orderStatus \notin {SHIPPED, DELIVERED}]_vars

\* ---- C12 ----
\* C12: a cancelOrder that ran alone fails with OrderNotFound when the order does
\* not exist, with NotOwner when the caller is not its owner (whatever its
\* status), and with NotPending when the owner's order is not PENDING, as on a
\* second cancellation; a call that failed in one of these ways left every
\* book's stock and every order as they were.
CancelFailuresChangeNothing ==
  \A p \in Procs :
    EndedAlone(p, "cancelOrder") =>
      LET id == req[p].orderId
          was == ordersAtStart[p]
      IN /\ id \notin 1..Len(was) => result[p].kind = "OrderNotFound"
         /\ (id \in 1..Len(was) /\ was[id].userId # req[p].userId)
              => result[p].kind = "NotOwner"
         /\ ( /\ id \in 1..Len(was)
              /\ was[id].userId = req[p].userId
              /\ was[id].orderStatus # PENDING )
              => result[p].kind = "NotPending"
         /\ result[p].kind \in {"OrderNotFound", "NotOwner", "NotPending"}
              => (stock = stockAtStart[p] /\ orders = ordersAtStart[p])
\* the owner's second cancellation of an order already cancelled and restocked
SecondCancelWitness ==
  \E p \in Procs :
    /\ EndedAlone(p, "cancelOrder")
    /\ req[p].orderId \in 1..Len(ordersAtStart[p])
    /\ ordersAtStart[p][req[p].orderId].userId = req[p].userId
    /\ ordersAtStart[p][req[p].orderId].orderStatus = CANCELLED
    /\ result[p].kind = "NotPending"
    /\ stock # initStock
    /\ stock = stockAtStart[p]

\* ---- C13 ----
\* position of a status on the path PENDING -> SHIPPED -> DELIVERED
StatusRank(st) == IF st = PENDING THEN 0 ELSE IF st = SHIPPED THEN 1 ELSE 2
\* a status change the data model allows
AllowedTransition(from, to) ==
  \/ from = to
  \/ from = PENDING /\ to = CANCELLED
  \/ /\ from # CANCELLED /\ to # CANCELLED
     /\ StatusRank(from) < StatusRank(to)
\* C13: every step leaves each order's status where it was, or moves it forward
\* along PENDING -> SHIPPED -> DELIVERED, or from PENDING to CANCELLED; no order
\* returns to an earlier status and none leaves CANCELLED.
StatusMovesForwardOnly ==
  [][\A i \in 1..Len(orders) :
       AllowedTransition(orders[i].orderStatus, orders'[i].orderStatus)]_vars

\* ---- C14 ----
\* C14: an updateOrderStatus that ran alone on an existing order succeeds and
\* leaves the store as it was except that order's status, which is the requested
\* one whatever it was before (stock, items, totalPrice and paymentStatus are
\* unchanged); on an order that does not exist it fails with OrderNotFound and
\* changes nothing.
StatusUpdateSetsOnlyStatus ==
  \A p \in Procs :
    EndedAlone(p, "updateOrderStatus") =>
      LET id == req[p].orderId
          was == ordersAtStart[p]
      IN /\ stock = stockAtStart[p]
         /\ IF id \in 1..Len(was)
            THEN /\ result[p].kind = "ok"
                 /\ orders = [was EXCEPT ![id].orderStatus = req[p].status]
            ELSE /\ result[p].kind = "OrderNotFound"
                 /\ orders = was
\* a cancelled order was set back to PENDING by a call that ran alone
StatusOverwrittenWitness ==
  \E p \in Procs :
    /\ EndedAlone(p, "updateOrderStatus")
    /\ req[p].orderId \in 1..Len(ordersAtStart[p])
    /\ ordersAtStart[p][req[p].orderId].orderStatus = CANCELLED
    /\ req[p].status = PENDING
    /\ result[p].kind = "ok"
    /\ orders[req[p].orderId].orderStatus = PENDING
    /\ stock = stockAtStart[p]

\* ---- C15 ----
\* the step is p's createOrder commit and lowers book b's stock by its decrements
LoweredByCreateOrder(p, b) ==
  /\ pc[p] = "co_commit" /\ pc'[p] = "idle"
  /\ tx[p].delta[b] < 0
  /\ stock'[b] = stock[b] + tx[p].delta[b]
\* the step is p's cancelOrder commit and raises book b's stock by its increments
RaisedByCancelOrder(p, b) ==
  /\ pc[p] = "ca_commit" /\ pc'[p] = "idle"
  /\ tx[p].delta[b] > 0
  /\ stock'[b] = stock[b] + tx[p].delta[b]
\* the step is p's updateBook write of book b with a DTO that defines stockQuantity
SetByUpdateBook(p, b) ==
  /\ pc[p] = "ub_update" /\ pc'[p] = "idle"
  /\ req[p].bookId = b
  /\ "stockQuantity" \in req[p].dto.has
  /\ stock'[b] = req[p].dto.stockQuantity
\* C15 as stated: a book's stockQuantity changes only in a createOrder commit
\* (decrement) or a cancelOrder commit (increment); no other operation, in
\* particular updateBook, writes it.
StockWrittenOnlyByOrders ==
  [][\A b \in Books :
       stock'[b] # stock[b]
         => \E p \in Procs : LoweredByCreateOrder(p, b) \/ RaisedByCancelOrder(p, b)]_vars
\* C15 amended: a book's stockQuantity changes only in a createOrder commit
\* (decrement), a cancelOrder commit (increment), or an updateBook whose request
\* carries stockQuantity, which sets it to that value; an updateBook without
\* stockQuantity leaves it as it was.
StockWrittenOnlyByOrdersOrUpdateBook ==
  [][\A b \in Books :
       stock'[b] # stock[b]
         => \E p \in Procs : \/ LoweredByCreateOrder(p, b)
                             \/ RaisedByCancelOrder(p, b)
                             \/ SetByUpdateBook(p, b)]_vars
\* an updateBook carrying stockQuantity ended alone after an order was placed and
\* changed its book's stock to the value it carried
StockSetByUpdateBookWitness ==
  \E p \in Procs :
    /\ EndedAlone(p, "updateBook")
    /\ result[p].kind = "ok"
    /\ "stockQuantity" \in req[p].dto.has
    /\ stock[req[p].bookId] = req[p].dto.stockQuantity
    /\ stock[req[p].bookId] # stockAtStart[p][req[p].bookId]
    /\ Len(orders) = 1
    /\ stockAtStart[p] # initStock

\* ---- C16 ----
\* C16: no step changes the items (unitPrice, subtotal) or the totalPrice of an
\* order already in the store; in particular an updateBook that changes a book's
\* price leaves the orders that hold the book as they were.
OrderPricesAreSnapshots ==
  [][\A i \in 1..Len(orders) :
       /\ orders'[i].orderItems = orders[i].orderItems
       /\ orders'[i].totalPrice = orders[i].totalPrice]_vars
\* an updateBook changed the price of a book after an order for it was placed;
\* the order still holds the price it was placed at
PriceChangedAfterOrderWitness ==
  \E p \in Procs :
    /\ EndedAlone(p, "updateBook")
    /\ result[p].kind = "ok"
    /\ "price" \in req[p].dto.has
    /\ price[req[p].bookId] = req[p].dto.price
    /\ \E i \in 1..Len(orders) :
         /\ Len(orders[i].orderItems) = 1
         /\ orders[i].orderItems[1].bookId = req[p].bookId
         /\ orders[i].orderItems[1].unitPrice = BasePrice[req[p].bookId]
         /\ orders[i].orderItems[1].unitPrice # price[req[p].bookId]
         /\ orders[i].orderItems[1].subtotal =
              BasePrice[req[p].bookId] * orders[i].orderItems[1].quantity
         /\ orders[i].totalPrice = orders[i].orderItems[1].subtotal

\* ---- C17 ----
\* C17: a createOrder rejected by the advisory stock check ends with an error
\* that names the entry's book and reports an available stock strictly less
\* than the requested quantity, also when other requests change the stock
\* meanwhile.
AdvisoryErrorReportsShortage ==
  \A p \in Procs :
    (pc[p] = "idle" /\ req[p].op = "createOrder" /\ result[p].kind = "InsufficientStock")
      => /\ \E i \in 1..Len(req[p].items) :
              /\ req[p].items[i].bookId = result[p].book
              /\ req[p].items[i].quantity = result[p].requested
         /\ result[p].available < result[p].requested

FirstMissingBook(p, i) ==
  /\ i \in 1..Len(req[p].items)
  /\ ~RouteRejects(req[p].items)
  /\ req[p].items[i].bookId \notin Books
  /\ \A j \in 1..(i - 1) :
       /\ req[p].items[j].bookId \in Books
       /\ req[p].items[j].quantity <= stockAtStart[p][req[p].items[j].bookId]
\* C19: a createOrder that ran alone with an entry naming a book that does not
\* exist, the entries before it being valid and in stock, fails with the not-found
\* error naming that bookId, answered with HTTP 404; no stock changes and no
\* order is created.
MissingBookIsNotFound ==
  \A p \in Procs : \A i \in 1..MaxItems :
    (EndedAlone(p, "createOrder") /\ FirstMissingBook(p, i))
      => /\ result[p].kind = "BookIdNotFound"
         /\ result[p].book = req[p].items[i].bookId
         /\ result[p].status = 404
         /\ stock = stockAtStart[p]
         /\ orders = ordersAtStart[p]
\* the second entry named no book while the first was valid and in stock
MissingSecondBookWitness ==
  \E p \in Procs :
    /\ EndedAlone(p, "createOrder")
    /\ FirstMissingBook(p, 2)
    /\ req[p].items[1].quantity = stockAtStart[p][req[p].items[1].bookId]
    /\ result[p].kind = "BookIdNotFound"
    /\ result[p].status = 404
    /\ result[p].book = GhostId

\* ---- C20 ----
\* the Authorization header carries a token that verifies and whose role is ADMIN
CarriesAdminToken(headers) ==
  /\ headers.authorization.scheme = "Bearer"
  /\ headers.authorization.token.key = JWT_SECRET
  /\ headers.authorization.token.role = ADMIN
\* C20: an admin-only operation (here updateOrderStatus behind PUT
\* /api/orders/{id}) is running or has taken effect only for a request whose
\* Authorization header carries a verifying token with role ADMIN, whatever
\* other headers the request carries.
AdminOperationNeedsAdminToken ==
  \A p \in Procs :
    (req[p].op = "updateOrderStatus"
       /\ (pc[p] # "idle" \/ result[p].kind \notin {"Unauthorized", "Forbidden", "none"}))
      => CarriesAdminToken(req[p].headers)

\* ---- C21 ----
\* C21: a list answered to a non-admin user holds only orders whose userId is
\* that user's id, and with the default page all of them; a list answered to an
\* admin with the default page holds every order; GET /api/orders/{id} of an
\* existing order answers the order to its owner and to an admin and 403 to
\* any other user.
OrdersReadByOwnerOrAdmin ==
  \A p \in Procs :
    /\ (req[p].op = "getOrders" /\ result[p].kind = "ok")
         => LET user == req[p].user
                data == result[p].data
                mine == {i \in 1..Len(orders) : orders[i].userId = user.userId}
                got == {data[k] : k \in 1..Len(data)}
            IN /\ got \subseteq 1..Len(orders)
               /\ ~isAdmin(user) => got \subseteq mine
               /\ req[p].query = DefaultQuery
                    => got = (IF isAdmin(user) THEN 1..Len(orders) ELSE mine)
    /\ (req[p].op = "getOrder" /\ pc[p] = "idle" /\ req[p].user # NoUser
          /\ OrderExists(req[p].orderId))
         => IF isAdmin(req[p].user) \/ orders[req[p].orderId].userId = req[p].user.userId
            THEN result[p].kind = "ok" /\ result[p].data = <<req[p].orderId>>
            ELSE result[p] = Forbidden
\* bob listed his orders and got his own only, and alice was refused bob's order
OwnOrdersOnlyWitness ==
  \E p \in Procs, q \in Procs :
    /\ req[p].op = "getOrders" /\ result[p].kind = "ok"
    /\ req[p].user.userId = "bob" /\ req[p].query = DefaultQuery
    /\ result[p].data = <<2>>
    /\ orders[1].userId = "alice"
    /\ req[q].op = "getOrder" /\ req[q].user.userId = "alice" /\ req[q].orderId = 2
    /\ result[q] = Forbidden

\* ---- C23 ----
\* C23: for every page and size a list request carries, zero and negative
\* values included, the effective page is at least 1 and the effective page
\* size lies in 1..MaxSize, so the skip offset is never negative and the
\* answered totalPages is never negative.
PageAndSizeWithinLimits ==
  \A p \in Procs :
    req[p].op = "getOrders" /\ req[p].user # NoUser
      => LET query == req[p].query IN
           /\ PageOf(query) >= 1
           /\ SizeOf(query) \in 1..MaxSize
           /\ SkipOf(query) >= 0
           /\ result[p].kind = "ok" => result[p].pagination.totalPages >= 0

\* ---- C22 ----
\* C22: every order was placed by a user whose role is CUSTOMER, and a POST
\* /api/orders authenticated as ADMIN that ran alone left every book's stock and
\* the orders as they were.
OrdersPlacedByCustomersOnly ==
  /\ \A i \in 1..Len(orders) :
       \E user \in RouteUsers : user.userId = orders[i].userId /\ user.role = CUSTOMER
  /\ \A p \in Procs :
       EndedAlone(p, "createOrder") /\ req[p].user.role = ADMIN
         => stock = stockAtStart[p] /\ orders = ordersAtStart[p]

\* ---- C24 ----
\* C24: starting from the store that holds one placed order, whenever no request
\* is in progress every book's stock is at most its stock before that order was
\* placed: the order's quantities were added back at most once.
OrderRestockedAtMostOnce ==
  (\A p \in Procs : pc[p] = "idle")
    => \A b \in Books : stock[b] <= initStock[b] + TotalQty(orders[1].orderItems, b)

\* ---- C25 ----
RECURSIVE ActiveQty(_, _)
\* copies of book b held by the orders of os whose status is not CANCELLED
ActiveQty(os, b) ==
  IF os = <<>> THEN 0
  ELSE (IF os[1].orderStatus # CANCELLED THEN TotalQty(os[1].orderItems, b) ELSE 0)
       + ActiveQty(Tail(os), b)
\* C25: without updateBook and deleteBook, whenever no request is in progress,
\* each book's stock plus the copies of it held by non-CANCELLED orders equals
\* the book's stock before any order was placed.
StockIsConserved ==
  (\A p \in Procs : pc[p] = "idle")
    => \A b \in Books :
         stock[b] + ActiveQty(orders, b) = initStock[b] + TotalQty(orders[1].orderItems, b)

\* ---- C26 ----
\* C26: at the step that commits an order, the unitPrice of each of its items
\* equals the price its book has at that moment, also when updateBook changed
\* the price after the validation pass read it.
UnitPriceIsPriceAtCommit ==
  [][ Len(orders') > Len(orders)
        => LET o == orders'[Len(orders')] IN
             \A i \in 1..Len(o.orderItems) :
               o.orderItems[i].unitPrice = price'[o.orderItems[i].bookId] ]_vars

EmailsAreUnique ==
  /\ \A i \in 1..Len(users), j \in 1..Len(users) :
       users[i].email = users[j].email => i = j
  /\ \A p \in Procs :
       ( /\ req[p].op = "registerUser" /\ pc[p] = "idle" /\ result[p].kind # "none"
         /\ ~RegisterRejects(req[p].body)
         /\ EmailRegistered(usersAtStart[p], req[p].email) )
       => /\ result[p].status = 409
          /\ ~concurrent[p] => users = usersAtStart[p]
\* two registrations of one email, written with and without capitals, ran
\* concurrently: one created the user and the other was refused by the store
OneOfTwoRegistrationsWitness ==
  \E p \in Procs, q \in Procs :
    /\ req[p].op = "registerUser" /\ req[q].op = "registerUser"
    /\ pc[p] = "idle" /\ pc[q] = "idle"
    /\ req[p].body.email # req[q].body.email /\ req[p].email = req[q].email
    /\ result[p].kind = "ok" /\ result[q].kind = "UniqueConstraintFailed"
    /\ Len(users) = 1
\* a registration of a registered email, made after the first ended, got 409
SecondRegistrationWitness ==
  \E p \in Procs :
    /\ EndedAlone(p, "registerUser")
    /\ EmailRegistered(usersAtStart[p], req[p].email)
    /\ result[p].status = 409 /\ users = usersAtStart[p]

====
